---- MODULE Spec2Model ----
(***************************************************************************)
(* A model of her/replay_buffer.py: the ReplayBuffer class, its slot       *)
(* allocator (_get_storage_idx), its lock and its public operations,       *)
(* called by several threads.                                              *)
(*                                                                         *)
(* Arrays are modelled by their contents.  A field's buffer is a function  *)
(* from episode slot (0 .. size-1) to a row; a row is the sequence, over   *)
(* the time steps of the episode, of the cells of that episode.  A cell    *)
(* written by store_episode is the tuple <<field, v, j, t>>: the value at  *)
(* time step t of episode j of a batch whose payload is v.                 *)
(***************************************************************************)
EXTENDS Integers, Sequences, FiniteSets, TLC

\* ---------------------------------------------------------------- bounds

\* The time horizon passed to the constructor.
T == 2

\* The largest capacity, in episodes, the constructor is called for.
MaxCapacity == 2

\* The number of distinct payloads the episode batches carry.
MaxVal == 1

\* store_episode is called only with a batch that keeps the episodes ingested
\* so far within this number.
MaxIngested == 3

\* The largest capacity, in episodes, of the buffers on which the progress of
\* blocked calls is checked.
MaxFairCapacity == 1

\* ------------------------------------------------------ the configuration

\* The calling threads.
Threads == {"t1", "t2"}

\* The lock's value when no thread holds it.
Free == "free"

\* buffer_shapes.keys(), in the dict's order: the declared fields.
Keys == <<"o", "ag">>

KeySet == {Keys[p] : p \in 1..Len(Keys)}

\* The second dimension of a field's array: T+1 for the two fields that sample
\* shifts by one time step, T for the others.
EpLen(k) == IF k \in {"o", "ag"} THEN T + 1 ELSE T

\* The keys sample asserts in what the strategy returns.
RequiredKeys == {"r", "o_2", "ag_2"} \cup KeySet

VARIABLES
    size,                  \* self.size: the capacity in episodes
    buffers,               \* self.buffers: field -> slot -> row
    current_size,          \* self.current_size
    n_transitions_stored,  \* self.n_transitions_stored
    lock,                  \* self.lock: the thread holding it, or Free
    pc,                    \* each thread's position
    batch,                 \* store_episode's episode_batch argument
    idxs,                  \* store_episode's local idxs
    kpos,                  \* store_episode's position in its loop over the keys
    view_len,              \* sample's local buffers: the slots its views span
    ret,                   \* the call the last step ended, and how it ended
    ingested,              \* history: episodes passed to the stores that returned
    fresh                  \* history: field -> slots written since the last clear

shared == <<buffers, current_size, n_transitions_stored>>

vars == <<size, buffers, current_size, n_transitions_stored, lock, pc, batch,
          idxs, kpos, view_len, ret, ingested, fresh>>

\* ---------------------------------------------------------- pure helpers

Min(a, b) == IF a <= b THEN a ELSE b

\* np.arange(a, b)
Arange(a, b) == [p \in 1..(b - a) |-> a + p - 1]

\* The arrays np.random.randint(lo, hi, n) can return.
RandInt(lo, hi, n) == [1..n -> lo..(hi - 1)]

\* inc = inc or 1
IncOf(inc) == IF inc = 0 THEN 1 ELSE inc

\* A _get_storage_idx without its assertion.
IncFitsAlways(inc, sz) == TRUE

\* assert inc <= self.size
IncFits(inc, sz) == inc <= sz

\* A _get_storage_idx that, on a full buffer, draws its slots without
\* replacement.
StorageIdxNoRepeat(cs, sz, inc) ==
    IF cs + inc <= sz
    THEN {Arange(cs, cs + inc)}
    ELSE IF cs < sz
         THEN {Arange(cs, sz) \o b : b \in RandInt(0, cs, inc - (sz - cs))}
         ELSE {ix \in RandInt(0, sz, inc) :
                  \A p \in 1..inc : \A q \in 1..inc : ix[p] = ix[q] => p = q}

\* A _get_storage_idx whose split branch draws the overflow slots from the
\* whole buffer.
StorageIdxAnySlot(cs, sz, inc) ==
    IF cs + inc <= sz
    THEN {Arange(cs, cs + inc)}
    ELSE IF cs < sz
         THEN {Arange(cs, sz) \o b : b \in RandInt(0, sz, inc - (sz - cs))}
         ELSE RandInt(0, sz, inc)

\* The index arrays _get_storage_idx can choose, inc being the increment after
\* its default was applied.
StorageIdx(cs, sz, inc) ==
    IF cs + inc <= sz
    THEN {Arange(cs, cs + inc)}
    ELSE IF cs < sz
         THEN {Arange(cs, sz) \o b : b \in RandInt(0, cs, inc - (sz - cs))}
         ELSE RandInt(0, sz, inc)

\* A size update that forgets the capacity.
NewSizeNoClamp(cs, sz, inc) == cs + inc

\* A size update that starts over when the batch overflows the buffer.
NewSizeRestart(cs, sz, inc) == IF cs + inc <= sz THEN cs + inc ELSE inc

\* self.current_size = min(self.size, self.current_size+inc)
NewSize(cs, sz, inc) == Min(sz, cs + inc)

\* The row of episode j (from 1) of field k in a batch of payload v.
Row(k, v, j) == [t \in 1..EpLen(k) |-> <<k, v, j, t>>]

\* episode_batch[k]: the rows of field k.
BatchRows(b, k) == [j \in 1..b.lens[k] |-> Row(k, b.v, j)]

\* A row of np.empty: whatever the memory held.
UninitRow(k, u) == IF u = 0 THEN [t \in 1..EpLen(k) |-> <<k, 0, 0, t>>]
                            ELSE Row(k, u, 1)

\* Whether  buf[idx] = rows  broadcasts: idx is an integer when inc == 1, and
\* then rows must hold one row; otherwise idx is an array as long as rows.
CanAssign(ix, inc, rows) == IF inc = 1 THEN Len(rows) = 1
                                       ELSE Len(rows) = Len(ix)

\* buf after  buf[idx] = rows : assigned in order, the last of a repeated index
\* remaining.
RECURSIVE AssignFrom(_, _, _, _)
AssignFrom(buf, ix, rows, p) ==
    IF p > Len(ix) THEN buf
    ELSE AssignFrom([buf EXCEPT ![ix[p]] = rows[p]], ix, rows, p + 1)

Assign(buf, ix, rows) == AssignFrom(buf, ix, rows, 1)

\* buffers[key][:n] for every key: the views sample takes.
ViewOf(bufs, n) == [k \in KeySet |-> [i \in 0..(n - 1) |-> bufs[k][i]]]

\* a[:, :-1, :]
DropLastStep(a) == [i \in DOMAIN a |-> SubSeq(a[i], 1, Len(a[i]) - 1)]

\* a[:, 1:, :]
DropFirstStep(a) == [i \in DOMAIN a |-> Tail(a[i])]

\* What sample hands to the strategy: the views plus o_2 and ag_2.
StrategyInput(bufs, n) ==
    LET v == ViewOf(bufs, n)
    IN  [k \in KeySet \cup {"o_2", "ag_2"} |->
            IF k = "o_2" THEN DropFirstStep(v["o"])
            ELSE IF k = "ag_2" THEN DropFirstStep(v["ag"])
            ELSE v[k]]

\* ----------------------------------------------------------------- inputs

\* The episode batches store_episode is called with: any of the declared
\* fields present, each with its own number of episodes.
BatchInputs(sz) ==
    UNION {[lens : [K -> 0..(sz + 1)], v : 1..MaxVal] : K \in SUBSET KeySet}

\* The key sets the strategy's result can have.
StrategyOutputs == {RequiredKeys, RequiredKeys \ {"r"}}

\* The time steps of o_2 and ag_2 in the strategy's result: those it was given
\* (T) when it hands them on, a single one when it returns transitions.
StrategySteps == {T, 1}

Queries == {"full", "get_current_episode_size", "get_current_size",
            "get_transitions_stored"}

NoBatch == [lens |-> <<>>, v |-> 0]

\* What a call ended with: the value it returned (an integer, or a boolean in
\* flag), or the exception it raised and the source line that raised it.
NoResult == [by |-> "none", op |-> "none", err |-> "none", val |-> 0, flag |-> FALSE]
Returned(t, op, val, flag) == [by |-> t, op |-> op, err |-> "none", val |-> val, flag |-> flag]
Raised(t, op, err, line) == [by |-> t, op |-> op, err |-> err, val |-> line, flag |-> FALSE]

\* batch_sizes = [len(episode_batch[key]) for key in episode_batch.keys()]
BatchSizes(b) == {b.lens[k] : k \in DOMAIN b.lens}

\* A store_episode without its assertion on the batch sizes.
BatchSizesUnchecked(b) == TRUE

\* np.all(np.array(batch_sizes) == batch_sizes[0])
BatchSizesAgree(b) == Cardinality(BatchSizes(b)) = 1

\* batch_size = batch_sizes[0]
BatchSize(b) == b.lens[CHOOSE k \in DOMAIN b.lens : TRUE]

\* A counter that adds episodes where transitions are meant.
NewTransitionsStoredNoT(stored, batch_size) == stored + batch_size

\* self.n_transitions_stored += batch_size * self.T
NewTransitionsStored(stored, batch_size) == stored + batch_size * T

\* ------------------------------------------------------------------- Init

\* __init__
Init ==
    /\ \E size_in_transitions \in 0..(MaxCapacity * T + T - 1) :
           size = size_in_transitions \div T
    /\ \E u \in 0..1 : buffers = [k \in KeySet |-> [i \in 0..(size - 1) |-> UninitRow(k, u)]]
    /\ current_size = 0
    /\ n_transitions_stored = 0
    /\ lock = Free
    /\ pc = [t \in Threads |-> "idle"]
    /\ batch = [t \in Threads |-> NoBatch]
    /\ idxs = [t \in Threads |-> <<>>]
    /\ kpos = [t \in Threads |-> 0]
    /\ view_len = [t \in Threads |-> 0]
    /\ ret = NoResult
    /\ ingested = 0
    /\ fresh = [k \in KeySet |-> {}]

\* ---------------------------------------------------------- store_episode

\* The positions of a thread inside store_episode's with block.
StorePcs == {"s_idx", "s_write"}

\* store_episode is called: lines 72-74, then the lock is taken (line 76).  A
\* call that passes the check waits for the lock: it starts when the lock is
\* free.
StoreCall(t, b) ==
    /\ pc[t] = "idle"
    /\ IF DOMAIN b.lens = {}
       THEN /\ ret' = Raised(t, "store_episode", "IndexError", 73)
            /\ UNCHANGED <<pc, batch, lock>>
       ELSE IF ~BatchSizesAgree(b)
       THEN /\ ret' = Raised(t, "store_episode", "AssertionError", 73)
            /\ UNCHANGED <<pc, batch, lock>>
       ELSE /\ ingested + BatchSize(b) <= MaxIngested
            /\ lock = Free
            /\ lock' = t
            /\ pc' = [pc EXCEPT ![t] = "s_idx"]
            /\ batch' = [batch EXCEPT ![t] = b]
            /\ ret' = NoResult
    /\ UNCHANGED <<size, buffers, current_size, n_transitions_stored, idxs, kpos,
                   view_len, ingested, fresh>>

\* idxs = self._get_storage_idx(batch_size) (line 77, lines 106-125); a failed
\* assertion leaves the with block, which releases the lock.
StoreGetIdx(t) ==
    /\ pc[t] = "s_idx"
    /\ LET inc == IncOf(BatchSize(batch[t]))
       IN  IF ~IncFits(inc, size)
           THEN /\ ret' = Raised(t, "store_episode", "AssertionError", 108)
                /\ pc' = [pc EXCEPT ![t] = "idle"]
                /\ batch' = [batch EXCEPT ![t] = NoBatch]
                /\ lock' = Free
                /\ UNCHANGED <<current_size, idxs, kpos>>
           ELSE /\ \E ix \in StorageIdx(current_size, size, inc) :
                       idxs' = [idxs EXCEPT ![t] = ix]
                /\ current_size' = NewSize(current_size, size, inc)
                /\ kpos' = [kpos EXCEPT ![t] = 1]
                /\ pc' = [pc EXCEPT ![t] = "s_write"]
                /\ ret' = NoResult
                /\ UNCHANGED <<batch, lock>>
    /\ UNCHANGED <<size, buffers, n_transitions_stored, view_len, ingested, fresh>>

\* One round of  for key in self.buffers.keys(): self.buffers[key][idxs] =
\* episode_batch[key]  (lines 80-81); after the last key, line 83 and the
\* release of the lock.  An exception releases the lock too.
StoreWrite(t) ==
    /\ pc[t] = "s_write"
    /\ LET b == batch[t]
           k == Keys[kpos[t]]
           inc == IncOf(BatchSize(b))
           last == kpos[t] = Len(Keys)
           fail(err) ==
               /\ ret' = Raised(t, "store_episode", err, 81)
               /\ pc' = [pc EXCEPT ![t] = "idle"]
               /\ batch' = [batch EXCEPT ![t] = NoBatch]
               /\ idxs' = [idxs EXCEPT ![t] = <<>>]
               /\ kpos' = [kpos EXCEPT ![t] = 0]
               /\ lock' = Free
               /\ UNCHANGED <<buffers, fresh, n_transitions_stored, ingested>>
       IN  IF k \notin DOMAIN b.lens
           THEN fail("KeyError")
           ELSE IF ~CanAssign(idxs[t], inc, BatchRows(b, k))
           THEN fail("ValueError")
           ELSE /\ buffers' = [buffers EXCEPT ![k] = Assign(@, idxs[t], BatchRows(b, k))]
                /\ fresh' = [fresh EXCEPT ![k] = @ \cup {idxs[t][p] : p \in 1..Len(idxs[t])}]
                /\ IF last
                   THEN /\ n_transitions_stored' =
                               NewTransitionsStored(n_transitions_stored, BatchSize(b))
                        /\ ingested' = ingested + BatchSize(b)
                        /\ ret' = Returned(t, "store_episode", 0, FALSE)
                        /\ pc' = [pc EXCEPT ![t] = "idle"]
                        /\ batch' = [batch EXCEPT ![t] = NoBatch]
                        /\ idxs' = [idxs EXCEPT ![t] = <<>>]
                        /\ kpos' = [kpos EXCEPT ![t] = 0]
                        /\ lock' = Free
                   ELSE /\ kpos' = [kpos EXCEPT ![t] = @ + 1]
                        /\ ret' = NoResult
                        /\ UNCHANGED <<n_transitions_stored, ingested, pc, batch,
                                       idxs, lock>>
    /\ UNCHANGED <<size, current_size, view_len>>

\* ------------------------------------------------------------------ sample

\* sample is called and takes the lock (lines 43-46).
SampleCall(t) ==
    /\ pc[t] = "idle"
    /\ lock = Free
    /\ lock' = t
    /\ pc' = [pc EXCEPT ![t] = "m_snap"]
    /\ ret' = NoResult
    /\ UNCHANGED <<size, buffers, current_size, n_transitions_stored, batch, idxs,
                   kpos, view_len, ingested, fresh>>

\* A sample whose with block extends over the call of the strategy: the lock
\* is still held when the snapshot is taken.
SampleSnapHoldsLock(t) ==
    /\ pc[t] = "m_snap"
    /\ IF ~(current_size > 0)
       THEN /\ ret' = Raised(t, "sample", "AssertionError", 47)
            /\ pc' = [pc EXCEPT ![t] = "idle"]
            /\ lock' = Free
            /\ UNCHANGED view_len
       ELSE /\ view_len' = [view_len EXCEPT ![t] = current_size]
            /\ pc' = [pc EXCEPT ![t] = "m_strategy"]
            /\ ret' = NoResult
            /\ UNCHANGED lock
    /\ UNCHANGED <<size, buffers, current_size, n_transitions_stored, batch, idxs,
                   kpos, ingested, fresh>>

\* A sample that takes and releases the lock by hand, and so keeps it when its
\* assertion fails.
SampleSnapKeepsLock(t) ==
    /\ pc[t] = "m_snap"
    /\ IF ~(current_size > 0)
       THEN /\ ret' = Raised(t, "sample", "AssertionError", 47)
            /\ pc' = [pc EXCEPT ![t] = "idle"]
            /\ UNCHANGED <<view_len, lock>>
       ELSE /\ view_len' = [view_len EXCEPT ![t] = current_size]
            /\ pc' = [pc EXCEPT ![t] = "m_strategy"]
            /\ ret' = NoResult
            /\ lock' = Free
    /\ UNCHANGED <<size, buffers, current_size, n_transitions_stored, batch, idxs,
                   kpos, ingested, fresh>>

\* Lines 47-49 and the end of the with block: the assertion, then a basic
\* slice of every field, which is a view of the field's array.
SampleSnap(t) ==
    /\ pc[t] = "m_snap"
    /\ IF ~(current_size > 0)
       THEN /\ ret' = Raised(t, "sample", "AssertionError", 47)
            /\ pc' = [pc EXCEPT ![t] = "idle"]
            /\ UNCHANGED view_len
       ELSE /\ view_len' = [view_len EXCEPT ![t] = current_size]
            /\ pc' = [pc EXCEPT ![t] = "m_strategy"]
            /\ ret' = NoResult
    /\ lock' = Free
    /\ UNCHANGED <<size, buffers, current_size, n_transitions_stored, batch, idxs,
                   kpos, ingested, fresh>>

\* Lines 53-66: the strategy runs on the views, outside the lock, and its
\* result is checked for the required keys and returned as it is: the value
\* returned records the time steps of the result's o_2 and ag_2.
SampleStrategy(t) ==
    /\ pc[t] = "m_strategy"
    /\ \E out \in StrategyOutputs : \E steps \in StrategySteps :
           ret' = IF RequiredKeys \subseteq out
                  THEN Returned(t, "sample", steps, FALSE)
                  ELSE Raised(t, "sample", "AssertionError", 64)
    /\ pc' = [pc EXCEPT ![t] = "idle"]
    /\ view_len' = [view_len EXCEPT ![t] = 0]
    /\ UNCHANGED <<size, buffers, current_size, n_transitions_stored, lock, batch,
                   idxs, kpos, ingested, fresh>>

\* ----------------------------------------------------- queries and clear

\* self.current_size == self.size (line 37)
full == current_size = size

\* self.current_size * self.T (line 93)
get_current_size == current_size * T

\* Queries of which get_transitions_stored reads its counter and resets it.
QueryResets(t, q) ==
    /\ pc[t] = "idle"
    /\ lock = Free
    /\ ret' = IF q = "full" THEN Returned(t, q, 0, full)
              ELSE IF q = "get_current_episode_size" THEN Returned(t, q, current_size, FALSE)
              ELSE IF q = "get_current_size" THEN Returned(t, q, get_current_size, FALSE)
              ELSE Returned(t, q, n_transitions_stored, FALSE)
    /\ n_transitions_stored' = IF q = "get_transitions_stored" THEN 0
                               ELSE n_transitions_stored
    /\ UNCHANGED <<size, buffers, current_size, lock, pc, batch, idxs, kpos,
                   view_len, ingested, fresh>>

\* A query: the lock is taken, the counter read, the lock released.
Query(t, q) ==
    /\ pc[t] = "idle"
    /\ lock = Free
    /\ ret' = IF q = "full" THEN Returned(t, q, 0, full)
              ELSE IF q = "get_current_episode_size" THEN Returned(t, q, current_size, FALSE)
              ELSE IF q = "get_current_size" THEN Returned(t, q, get_current_size, FALSE)
              ELSE Returned(t, q, n_transitions_stored, FALSE)
    /\ UNCHANGED <<size, buffers, current_size, n_transitions_stored, lock, pc, batch,
                   idxs, kpos, view_len, ingested, fresh>>

\* A clear_buffer that leaves current_size as it was.
ClearBufferForgets(t) ==
    /\ pc[t] = "idle"
    /\ lock = Free
    /\ ret' = Returned(t, "clear_buffer", 0, FALSE)
    /\ UNCHANGED <<size, buffers, current_size, n_transitions_stored, lock, pc, batch,
                   idxs, kpos, view_len, ingested, fresh>>

\* clear_buffer (lines 100-102).
ClearBuffer(t) ==
    /\ pc[t] = "idle"
    /\ lock = Free
    /\ current_size' = 0
    /\ fresh' = [k \in KeySet |-> {}]
    /\ ret' = Returned(t, "clear_buffer", 0, FALSE)
    /\ UNCHANGED <<size, buffers, n_transitions_stored, lock, pc, batch, idxs, kpos,
                   view_len, ingested>>

\* ------------------------------------------------------------------- Next

Next ==
    \/ \E t \in Threads : \E b \in BatchInputs(size) : StoreCall(t, b)
    \/ \E t \in Threads : StoreGetIdx(t)
    \/ \E t \in Threads : StoreWrite(t)
    \/ \E t \in Threads : SampleCall(t)
    \/ \E t \in Threads : SampleSnap(t)
    \/ \E t \in Threads : SampleStrategy(t)
    \/ \E t \in Threads : \E q \in Queries : Query(t, q)
    \/ \E t \in Threads : ClearBuffer(t)

Spec == Init /\ [][Next]_vars

\* ------------------------------------------- calls that wait for the lock

\* The positions of a thread blocked in  with self.lock:  at the start of an
\* operation.
WaitPcs == {"w_store", "w_sample", "w_query", "w_clear"}

\* store_episode is called while the lock may be held: lines 72-74 passed, the
\* thread reaches line 76.
StoreInvoke(t, b) ==
    /\ pc[t] = "idle"
    /\ DOMAIN b.lens # {}
    /\ BatchSizesAgree(b)
    /\ ingested + BatchSize(b) <= MaxIngested
    /\ pc' = [pc EXCEPT ![t] = "w_store"]
    /\ batch' = [batch EXCEPT ![t] = b]
    /\ ret' = NoResult
    /\ UNCHANGED <<size, buffers, current_size, n_transitions_stored, lock, idxs,
                   kpos, view_len, ingested, fresh>>

\* The lock is granted to a waiting store_episode (line 76).
StoreAcquire(t) ==
    /\ pc[t] = "w_store"
    /\ lock = Free
    /\ lock' = t
    /\ pc' = [pc EXCEPT ![t] = "s_idx"]
    /\ ret' = NoResult
    /\ UNCHANGED <<size, buffers, current_size, n_transitions_stored, batch, idxs,
                   kpos, view_len, ingested, fresh>>

\* sample, clear_buffer or a query is called and reaches its with statement
\* (lines 46, 101, 36, 87, 92, 97).
Invoke(t, w) ==
    /\ pc[t] = "idle"
    /\ pc' = [pc EXCEPT ![t] = w]
    /\ ret' = NoResult
    /\ UNCHANGED <<size, buffers, current_size, n_transitions_stored, lock, batch,
                   idxs, kpos, view_len, ingested, fresh>>

\* The lock is granted to a waiting sample (line 46).
SampleAcquire(t) ==
    /\ pc[t] = "w_sample"
    /\ lock = Free
    /\ lock' = t
    /\ pc' = [pc EXCEPT ![t] = "m_snap"]
    /\ ret' = NoResult
    /\ UNCHANGED <<size, buffers, current_size, n_transitions_stored, batch, idxs,
                   kpos, view_len, ingested, fresh>>

\* The lock is granted to a waiting query (lines 36, 87, 92, 97).
QueryAcquire(t) ==
    /\ pc[t] = "w_query"
    /\ lock = Free
    /\ lock' = t
    /\ pc' = [pc EXCEPT ![t] = "q_run"]
    /\ ret' = NoResult
    /\ UNCHANGED <<size, buffers, current_size, n_transitions_stored, batch, idxs,
                   kpos, view_len, ingested, fresh>>

\* A query that holds the lock reads its counter, returns it and releases the
\* lock (lines 37, 88, 93, 98).
QueryRun(t, q) ==
    /\ pc[t] = "q_run"
    /\ lock = t
    /\ ret' = IF q = "full" THEN Returned(t, q, 0, full)
              ELSE IF q = "get_current_episode_size" THEN Returned(t, q, current_size, FALSE)
              ELSE IF q = "get_current_size" THEN Returned(t, q, get_current_size, FALSE)
              ELSE Returned(t, q, n_transitions_stored, FALSE)
    /\ pc' = [pc EXCEPT ![t] = "idle"]
    /\ lock' = Free
    /\ UNCHANGED <<size, buffers, current_size, n_transitions_stored, batch,
                   idxs, kpos, view_len, ingested, fresh>>

\* The lock is granted to a waiting clear_buffer (line 101).
ClearAcquire(t) ==
    /\ pc[t] = "w_clear"
    /\ lock = Free
    /\ lock' = t
    /\ pc' = [pc EXCEPT ![t] = "c_run"]
    /\ ret' = NoResult
    /\ UNCHANGED <<size, buffers, current_size, n_transitions_stored, batch, idxs,
                   kpos, view_len, ingested, fresh>>

\* A clear_buffer that holds the lock resets current_size and releases the
\* lock (line 102).
ClearRun(t) ==
    /\ pc[t] = "c_run"
    /\ lock = t
    /\ current_size' = 0
    /\ fresh' = [k \in KeySet |-> {}]
    /\ ret' = Returned(t, "clear_buffer", 0, FALSE)
    /\ pc' = [pc EXCEPT ![t] = "idle"]
    /\ lock' = Free
    /\ UNCHANGED <<size, buffers, n_transitions_stored, batch, idxs, kpos,
                   view_len, ingested>>

\* The steps of the operations when every operation takes the lock in a step
\* of its own and holds it until it leaves its with block: a store_episode or
\* a sample that finds the lock free may take it at once, a query or a
\* clear_buffer holds it from its with line to its return.
FairNext ==
    \/ \E t \in Threads : \E b \in BatchInputs(size) : StoreCall(t, b)
    \/ \E t \in Threads : StoreGetIdx(t)
    \/ \E t \in Threads : StoreWrite(t)
    \/ \E t \in Threads : SampleCall(t)
    \/ \E t \in Threads : SampleSnap(t)
    \/ \E t \in Threads : SampleStrategy(t)
    \/ \E t \in Threads : \E b \in BatchInputs(size) : StoreInvoke(t, b)
    \/ \E t \in Threads : StoreAcquire(t)
    \/ \E t \in Threads : \E w \in WaitPcs \ {"w_store"} : Invoke(t, w)
    \/ \E t \in Threads : SampleAcquire(t)
    \/ \E t \in Threads : QueryAcquire(t)
    \/ \E t \in Threads : \E q \in Queries : QueryRun(t, q)
    \/ \E t \in Threads : ClearAcquire(t)
    \/ \E t \in Threads : ClearRun(t)

\* A step of thread t inside a with block: the statements of lines 37, 47-49,
\* 77-83, 88, 93, 98 and 102, run by a thread that holds the lock.
Runs(t) == \/ StoreGetIdx(t)
           \/ StoreWrite(t)
           \/ SampleSnap(t)
           \/ \E q \in Queries : QueryRun(t, q)
           \/ ClearRun(t)

\* The lock is granted to thread t, blocked at the start of an operation.
Granted(t) == \/ StoreAcquire(t)
              \/ SampleAcquire(t)
              \/ QueryAcquire(t)
              \/ ClearAcquire(t)

\* What the scheduling of the threads gives.  A thread that holds the lock
\* keeps running, and a thread blocked on a lock that nobody takes gets it: both
\* are weak fairness.  Nothing more is assumed: threading.Lock leaves open
\* which waiter proceeds when the lock is released, and the thread that
\* released it may take it again first, so a blocked thread can be passed over
\* every time, behind any operation, a query or a clear_buffer included (each
\* holds the lock in a state of its own); and the strategy is the caller's
\* code, which need not return.
Fairness == \A t \in Threads : WF_vars(Runs(t)) /\ WF_vars(Granted(t))

\* The buffers the progress of the operations is checked on.
FairInit == Init /\ size <= MaxFairCapacity

FairSpec == FairInit /\ [][FairNext]_vars /\ Fairness

\* ------------------------------------------------------------- the claims

\* The step taken is one of thread t.
Acts(t) == \/ pc'[t] # pc[t]
           \/ kpos'[t] # kpos[t]
           \/ (ret' # ret /\ ret'.by = t)

\* Two fields of the batch hold different numbers of episodes.
Mismatched(b) == \E k1 \in DOMAIN b.lens : \E k2 \in DOMAIN b.lens : b.lens[k1] # b.lens[k2]

\* No store_episode is inside its with block: a reader can take the lock.
ReaderCanObserve == \A t \in Threads : pc[t] \notin StorePcs

\* C1: in every reachable state, whatever calls were made and however they
\* ended, 0 <= current_size <= size, size being size_in_transitions // T.
C1_SizeWithinCapacity == 0 <= current_size /\ current_size <= size

\* C1's case: a store_episode has just failed and left current_size at the
\* capacity of a buffer of two or more episodes.
C1_Witness == size >= 2 /\ current_size = size /\ ret.op = "store_episode" /\ ret.err # "none"

\* C2: once current_size equals size, no step of a store_episode changes it,
\* and full is true after it.
C2_FullStaysFull ==
    [][\A t \in Threads :
          (Acts(t) /\ current_size = size
             /\ (pc[t] \in StorePcs \/ pc'[t] \in StorePcs \/ ret'.op = "store_episode"))
          => (current_size' = size /\ full')]_vars

\* C2's case: a store_episode returned on a buffer that had been full before it
\* (more episodes were ingested than the buffer holds), and the buffer is full.
C2_Witness == /\ size > 0
              /\ ret.op = "store_episode" /\ ret.err = "none"
              /\ n_transitions_stored > size * T
              /\ full

\* C3: a store_episode whose batch supplies every field and fits
\* (current_size + batch size <= size) adds exactly its batch size to current_size, in the step that selects the
\* slots, and its other steps leave current_size alone; so from an empty buffer
\* current_size is the sum of the batch sizes and never decreases.
C3_SizeIsCumulative ==
    [][\A t \in Threads :
          (Acts(t) /\ pc[t] \in StorePcs /\ DOMAIN batch[t].lens = KeySet) =>
            /\ (pc[t] = "s_idx" /\ current_size + BatchSize(batch[t]) <= size)
                  => current_size' = current_size + BatchSize(batch[t])
            /\ pc[t] = "s_write" => current_size' = current_size]_vars

\* C4: n_transitions_stored is T times the episodes passed to the
\* store_episode calls that returned, and no step decreases it.
C4_TransitionsCounted ==
    [][/\ n_transitions_stored' >= n_transitions_stored
       /\ n_transitions_stored' = T * ingested']_vars

\* C4's case: more transitions were counted than the buffer holds, and
\* clear_buffer has just returned.
C4_Witness == /\ size > 0
              /\ n_transitions_stored > size * T
              /\ ret.op = "clear_buffer"
              /\ current_size = 0

\* C5: while the strategy of a sample is executing on a snapshot of written
\* slots, no step of another thread's store_episode (of a batch that supplies
\* every field and holds an episode or more) changes any value of what the
\* strategy reads.
C5_StrategyReadsCopy ==
    [][\A t \in Threads :
          (/\ pc[t] = "m_strategy" /\ pc'[t] = "m_strategy"
           /\ \A k \in KeySet : \A i \in 0..(view_len[t] - 1) : i \in fresh[k]
           /\ \A w \in Threads : pc[w] \in StorePcs =>
                  (DOMAIN batch[w].lens = KeySet /\ BatchSize(batch[w]) >= 1))
          => StrategyInput(buffers', view_len[t]) = StrategyInput(buffers, view_len[t])]_vars

\* C6: whenever a reader can take the lock, every slot that current_size counts
\* has been written, in every field, since the last clear_buffer.
C6_CountedSlotsWritten ==
    ReaderCanObserve =>
        \A k \in KeySet : \A i \in 0..(current_size - 1) : i \in fresh[k]

\* C7: no step of a store_episode whose batch (of an episode or more) lacks a
\* declared field changes
\* the buffers, current_size or n_transitions_stored, and the call ends in an
\* error.
C7_MissingFieldNoWrite ==
    [][\A t \in Threads :
          (Acts(t) /\ pc[t] \in StorePcs /\ DOMAIN batch[t].lens # KeySet
             /\ BatchSize(batch[t]) >= 1 /\ BatchSize(batch[t]) <= size)
          => /\ UNCHANGED shared
             /\ pc'[t] = "idle" => ret'.err # "none"]_vars

\* C8: a store_episode whose fields hold different numbers of episodes never
\* enters the with block, and the call that fails the batch-size assertion
\* changes neither the buffers, the counters nor the lock.
C8_MismatchFailsBeforeWrite ==
    [][\A t \in Threads :
          Acts(t) =>
            /\ pc'[t] \in StorePcs => ~Mismatched(batch'[t])
            /\ ret' = Raised(t, "store_episode", "AssertionError", 73)
                  => (UNCHANGED shared /\ lock' = lock /\ lock # t /\ pc'[t] = "idle")]_vars

\* C8's case: a call has just failed the batch-size assertion while another
\* thread held the lock.
C8_Witness == /\ ret.op = "store_episode" /\ ret.err = "AssertionError" /\ ret.val = 73
              /\ lock # Free /\ lock # ret.by

\* C9: a store_episode whose batch size exceeds size ends, in its first step
\* inside the with block, with the assertion error of line 108: no slot is
\* selected, the buffers and the counters are unchanged, the lock is released.
C9_TooLargeFails ==
    [][\A t \in Threads :
          (Acts(t) /\ pc[t] \in StorePcs /\ BatchSize(batch[t]) > size)
          => /\ UNCHANGED shared
             /\ idxs'[t] = <<>>
             /\ pc'[t] = "idle"
             /\ ret' = Raised(t, "store_episode", "AssertionError", 108)
             /\ lock' = Free]_vars

\* C9's case: a batch larger than a buffer that holds episodes has just been
\* refused, and the lock is free.
C9_Witness == /\ ret.op = "store_episode" /\ ret.err = "AssertionError" /\ ret.val = 108
              /\ current_size > 0
              /\ lock = Free

\* C10: a store_episode of an empty batch (every field present, with no
\* episode) selects no slot and changes neither
\* the buffers, current_size nor n_transitions_stored.
C10_EmptyBatchNoOp ==
    [][\A t \in Threads :
          (Acts(t) /\ pc[t] \in StorePcs /\ DOMAIN batch[t].lens = KeySet
             /\ BatchSize(batch[t]) = 0)
          => (UNCHANGED shared /\ idxs'[t] = <<>>)]_vars

\* C11: a clear_buffer sets current_size to 0 and leaves the storage as it
\* was; from then on only a store_episode that selects slots makes current_size
\* differ from 0, and while it is 0 get_current_size returns 0 and a sample
\* fails the assertion of line 47 without reaching the strategy.
C11_ClearEmpties ==
    [][/\ ret'.op = "clear_buffer" =>
              (current_size' = 0 /\ get_current_size' = 0 /\ buffers' = buffers)
       /\ (current_size = 0 /\ current_size' # 0) =>
              \E t \in Threads : Acts(t) /\ pc[t] = "s_idx"
       /\ (ret'.op = "get_current_size" /\ current_size = 0) => ret'.val = 0
       /\ \A t \in Threads :
              (Acts(t) /\ pc[t] = "m_snap" /\ current_size = 0) =>
                  /\ ret' = Raised(t, "sample", "AssertionError", 47)
                  /\ pc'[t] = "idle"]_vars

\* C11's case: a sample has just failed on a buffer that was cleared after
\* episodes were stored, and the storage still holds an episode a store wrote.
C11_Witness ==
    /\ ret.op = "sample" /\ ret.err = "AssertionError" /\ ret.val = 47
    /\ n_transitions_stored > 0
    /\ \A k \in KeySet : fresh[k] = {}
    /\ size >= 2
    /\ \A k \in KeySet : buffers[k][1] = Row(k, 1, 2)

\* Every call of the strategy ends.
StrategyReturns == \A t \in Threads : []<>(pc[t] # "m_strategy")

\* C12 as stated: under fair scheduling (the strategy returning whenever it is
\* called) every operation a thread has invoked, blocked on the lock or inside
\* it, ends: the thread is back outside the operation and the operation has
\* returned or raised.
C12_NoOperationBlocks ==
    StrategyReturns =>
        \A t \in Threads : (pc[t] # "idle") ~> (pc[t] = "idle" /\ ret.by = t)

\* C12 as amended: no operation holds the lock for ever.  A thread that holds
\* the lock releases it; a store_episode that has the lock ends, returning or
\* raising; a sample that has the lock goes on to its strategy with the lock
\* released, or ends with the assertion error of line 47.
C12_GuardReleased ==
    \A t \in Threads :
        /\ (lock = t) ~> (lock # t)
        /\ (pc[t] \in StorePcs) ~>
               (pc[t] = "idle" /\ ret.by = t /\ ret.op = "store_episode")
        /\ (pc[t] = "m_snap") ~>
               (lock # t /\ (\/ pc[t] = "m_strategy"
                             \/ ret = Raised(t, "sample", "AssertionError", 47)))

\* C12's case: a store_episode has just failed inside the with block while
\* another thread was blocked on the lock, which is free again.
C12_Witness ==
    /\ ret.op = "store_episode" /\ ret.err \in {"KeyError", "ValueError"}
    /\ lock = Free
    /\ \E t \in Threads : t # ret.by /\ pc[t] \in WaitPcs

\* C13: no step of full, get_current_episode_size, get_current_size,
\* get_transitions_stored or sample, whether the call returns or raises, changes
\* any field's storage, current_size or n_transitions_stored.
C13_ReadersDoNotMutate ==
    [][\A t \in Threads :
          (/\ Acts(t)
           /\ \/ pc[t] \in {"m_snap", "m_strategy"}
              \/ pc'[t] = "m_snap"
              \/ ret'.op \in Queries \cup {"sample"})
          => UNCHANGED shared]_vars

\* C13's case: a sample has just returned from a full buffer of two episodes.
C13_Witness ==
    /\ ret.op = "sample" /\ ret.err = "none"
    /\ size = 2 /\ current_size = 2
    /\ n_transitions_stored >= 2 * T

\* The value a sample has just returned or raised.
SampleEnded == ret.op = "sample"

\* f2 is field f with the first time step of every episode dropped: one step
\* shorter, f2[e][p] = f[e][p+1].
ShiftedByOne(f2, f) ==
    /\ DOMAIN f2 = DOMAIN f
    /\ \A e \in DOMAIN f :
           /\ Len(f2[e]) = Len(f[e]) - 1
           /\ \A p \in 1..Len(f2[e]) : f2[e][p] = f[e][p + 1]

\* C14 as stated: a sample that found the buffer non-empty returns, and the
\* o_2 and ag_2 of what it returns have one time step less than the fields o
\* and ag.
C14_ResultShifted ==
    (SampleEnded /\ ~(ret.err = "AssertionError" /\ ret.val = 47)) =>
        (ret.err = "none" /\ ret.val = EpLen("o") - 1 /\ ret.val = EpLen("ag") - 1)

\* C14 as amended: while the strategy of a sample runs, the snapshot it was
\* given spans one slot or more and holds o_2 and ag_2, which are o and ag
\* with the first time step of every episode dropped; and a sample that found
\* the buffer non-empty ends by returning or by the key assertion of line 64.
C14_SnapshotShifted ==
    /\ \A t \in Threads : pc[t] = "m_strategy" =>
           LET in == StrategyInput(buffers, view_len[t])
           IN  /\ view_len[t] >= 1
               /\ {"o_2", "ag_2"} \subseteq DOMAIN in
               /\ DOMAIN in["o"] = 0..(view_len[t] - 1)
               /\ ShiftedByOne(in["o_2"], in["o"])
               /\ ShiftedByOne(in["ag_2"], in["ag"])
               /\ \A e \in DOMAIN in["o"] : in["o"][e] = buffers["o"][e]
               /\ \A e \in DOMAIN in["ag"] : in["ag"][e] = buffers["ag"][e]
    /\ SampleEnded =>
           \/ ret.err = "none"
           \/ ret.err = "AssertionError" /\ ret.val \in {47, 64}

\* C14's case: the strategy runs on a snapshot of two episodes that a
\* store_episode wrote.
C14_Witness ==
    \E t \in Threads :
        /\ pc[t] = "m_strategy"
        /\ view_len[t] = 2
        /\ \A k \in KeySet : fresh[k] = {0, 1}

\* Slot i of buf2 holds the row of rows whose position in ix names it, and the
\* slots ix does not name are those of buf1.
WrittenAt(buf2, buf1, ix, rows) ==
    /\ Len(rows) = Len(ix)
    /\ \A p \in 1..Len(ix) : buf2[ix[p]] = rows[p]
    /\ \A i \in DOMAIN buf1 : (\A p \in 1..Len(ix) : ix[p] # i) => buf2[i] = buf1[i]

\* Thread t takes a step inside the with block of a store_episode whose batch
\* supplies every declared field.
StoresComplete(t) == Acts(t) /\ pc[t] \in StorePcs /\ DOMAIN batch[t].lens = KeySet

\* C15: a store_episode of inc episodes, every field supplied, with
\* current_size + inc <= size, selects the slots current_size ..
\* current_size+inc-1 in this order and sets current_size to
\* min(size, current_size + inc); each of its writes puts episode p of the
\* batch in the p-th of these slots and leaves the other slots alone, and the
\* call returns.
C15_AppendContiguous ==
    [][\A t \in Threads :
          LET inc == BatchSize(batch[t])
              k == Keys[kpos[t]]
          IN  /\ (StoresComplete(t) /\ pc[t] = "s_idx" /\ current_size + inc <= size) =>
                     /\ idxs'[t] = Arange(current_size, current_size + inc)
                     /\ current_size' = Min(size, current_size + inc)
                     /\ buffers' = buffers
              /\ (StoresComplete(t) /\ pc[t] = "s_write"
                     /\ idxs[t] = Arange(current_size - inc, current_size)) =>
                     /\ WrittenAt(buffers'[k], buffers[k], idxs[t], BatchRows(batch[t], k))
                     /\ \A k2 \in KeySet \ {k} : buffers'[k2] = buffers[k2]
                     /\ current_size' = current_size
                     /\ pc'[t] = "idle" => ret' = Returned(t, "store_episode", 0, FALSE)]_vars

\* C15 for batches of one episode or more.
C15_AppendNonEmpty ==
    [][\A t \in Threads :
          LET inc == BatchSize(batch[t])
              k == Keys[kpos[t]]
          IN  /\ (StoresComplete(t) /\ inc >= 1 /\ pc[t] = "s_idx" /\ current_size + inc <= size) =>
                     /\ idxs'[t] = Arange(current_size, current_size + inc)
                     /\ current_size' = Min(size, current_size + inc)
                     /\ buffers' = buffers
              /\ (StoresComplete(t) /\ inc >= 1 /\ pc[t] = "s_write"
                     /\ idxs[t] = Arange(current_size - inc, current_size)) =>
                     /\ WrittenAt(buffers'[k], buffers[k], idxs[t], BatchRows(batch[t], k))
                     /\ \A k2 \in KeySet \ {k} : buffers'[k2] = buffers[k2]
                     /\ current_size' = current_size
                     /\ pc'[t] = "idle" => ret' = Returned(t, "store_episode", 0, FALSE)]_vars

\* C16: a store_episode of inc <= size episodes that finds current_size < size
\* < current_size + inc selects inc slots: current_size .. size-1 in this
\* order, then inc - (size - current_size) slots of 0 .. current_size-1, a range
\* that is not empty; and it sets current_size to size.
C16_SplitSlots ==
    [][\A t \in Threads :
          LET inc == BatchSize(batch[t])
              cs == current_size
              overflow == inc - (size - cs)
          IN  (Acts(t) /\ pc[t] = "s_idx" /\ inc <= size /\ cs < size /\ size < cs + inc) =>
                  /\ pc'[t] = "s_write"
                  /\ cs >= 1
                  /\ Len(idxs'[t]) = inc
                  /\ Len(idxs'[t]) = (size - cs) + overflow
                  /\ \A p \in 1..(size - cs) : idxs'[t][p] = cs + p - 1
                  /\ \A p \in (size - cs + 1)..inc : idxs'[t][p] \in 0..(cs - 1)
                  /\ current_size' = size
                  /\ buffers' = buffers]_vars

\* C16's case: with one episode stored in a buffer of two, a store_episode of
\* two episodes has selected slot 1, then slot 0, and the buffer counts as full.
C16_Witness ==
    \E t \in Threads :
        /\ pc[t] = "s_write" /\ kpos[t] = 1
        /\ BatchSize(batch[t]) = 2
        /\ idxs[t] = <<1, 0>>
        /\ size = 2 /\ current_size = 2
        /\ ingested = 1
        /\ \A k \in KeySet : fresh[k] = {0}

\* C17: a store_episode that finds the buffer full and whose increment inc (of
\* line 107: the batch size, 1 for a batch of one episode or none) is at most
\* size selects inc slots, each any of 0 .. size-1, every such choice being
\* possible, repeats included, current_size remaining size; and a write of a
\* store_episode leaves every slot that is not selected as it was, in every
\* field.
C17_RandomOverwrite ==
    [][\A t \in Threads :
          LET inc == IncOf(BatchSize(batch[t]))
          IN  /\ (Acts(t) /\ pc[t] = "s_idx" /\ current_size = size /\ inc <= size) =>
                     /\ pc'[t] = "s_write"
                     /\ Len(idxs'[t]) = inc
                     /\ \A p \in 1..inc : idxs'[t][p] \in 0..(size - 1)
                     /\ \A ix \in [1..inc -> 0..(size - 1)] :
                            ix \in StorageIdx(current_size, size, inc)
                     /\ current_size' = size
                     /\ buffers' = buffers
              /\ (Acts(t) /\ pc[t] = "s_write") =>
                     \A k \in KeySet : \A i \in 0..(size - 1) :
                        (\A p \in 1..Len(idxs[t]) : idxs[t][p] # i) =>
                            buffers'[k][i] = buffers[k][i]]_vars

\* C17's case: on a full buffer of two, a store_episode of two episodes
\* selected slot 0 twice and has written field o: slot 0 holds the second
\* episode and slot 1 an episode stored before.
C17_Witness ==
    \E t \in Threads :
        /\ pc[t] = "s_write" /\ kpos[t] = 2
        /\ size = 2 /\ current_size = 2
        /\ idxs[t] = <<0, 0>>
        /\ buffers["o"][0] = Row("o", 1, 2)
        /\ buffers["o"][1] = Row("o", 1, 1)
        /\ 1 \in fresh["o"]

\* C18: a sample holds the lock while it is at its assertion and its slices,
\* and at no other time: while its strategy runs the lock is free or held by
\* another thread, never by the sampling thread.
C18_StrategyOutsideLock ==
    \A t \in Threads :
        /\ pc[t] = "m_snap" => lock = t
        /\ pc[t] = "m_strategy" => lock # t
        /\ lock = t => pc[t] \in StorePcs \cup {"m_snap"}

\* C18's case: while the strategy of one thread runs, another thread has taken
\* the lock and is writing a batch.
C18_Witness ==
    \E t \in Threads : \E w \in Threads :
        /\ pc[t] = "m_strategy"
        /\ pc[w] = "s_write"
        /\ lock = w

\* C19: when a sample takes its snapshot, every slot the snapshot spans (the
\* slots below current_size) was written in every field by a store_episode
\* since the last clear_buffer, or since construction; and a store_episode that
\* finds current_size = 0 selects slot 0 first.
C19_StaleDataInert ==
    [][\A t \in Threads :
          /\ (Acts(t) /\ pc[t] = "m_snap" /\ pc'[t] = "m_strategy") =>
                 \A k \in KeySet : \A i \in 0..(view_len'[t] - 1) : i \in fresh[k]
          /\ (Acts(t) /\ pc[t] = "s_idx" /\ pc'[t] = "s_write" /\ current_size = 0) =>
                 idxs'[t][1] = 0]_vars

\* C20: whenever a reader can take the lock, whatever calls were made and
\* however they ended, get_transitions_stored() >= get_current_size():
\* n_transitions_stored >= current_size * T.
C20_StoredCoversSize ==
    ReaderCanObserve => n_transitions_stored >= get_current_size

====
